---- MODULE Spec2Model ----
(***************************************************************************)
(* UNIETAXI dispatch engine (src/UNIETAXI_webapp.py, class CentralSystem): *)
(* the adjudicator thread, the per-trip _service threads, the submitters   *)
(* and the get_snapshot / get_history readers, as one state machine.       *)
(*                                                                         *)
(* Atomicity follows the source: every `with lock:` block is one step,     *)
(* every unlocked read or write of a shared field is a step of its own.    *)
(*                                                                         *)
(* Numbers.  Floats are modelled by exact scaled integers:                 *)
(*   coordinates  in 1/Unit of a degree (Unit makes interpolation exact),  *)
(*   ratings      in hundredths (4.5 is 450),                              *)
(*   fares        in cents,                                                *)
(*   earnings and profit in 1/100 cent (fare * percentage).                *)
(***************************************************************************)
EXTENDS Integers, Sequences, FiniteSets, TLC

\* ---------------------------------------------------------------- bounds
NumTaxis == 2          \* taxis registered before the engine is used
MaxRequests == 2       \* create_client_request calls in one behaviour
SnapshotRequests == 1  \* the same, while a reader polls get_snapshot
MaxAdjudicators == 2   \* adjudicator threads that can be alive at once
NumStartCallers == 2   \* threads that call start() concurrently

\* ------------------------------------------------------ program constants
MATCH_RADIUS == 2      \* MATCH_RADIUS = 2.0
SERVICE_FEE_PCT == 20  \* SERVICE_FEE_RATE = 0.20, in percent
PickupSteps == 15      \* move_smooth(start_pos, req.origin, steps=15, ...)
TripSteps == 25        \* move_smooth(req.origin, req.destination, steps=25, ...)
InitialRating == 450   \* Taxi.rating: float = 4.5
FarePerUnit == 160     \* dist * 1.6, in cents
BaseFare == 200        \* + 2.0, in cents

Unit == PickupSteps * TripSteps

TaxiIds == 1..NumTaxis
ReqIds == 1..MaxRequests
AdjIds == 1..MaxAdjudicators
StartCallers == 1..NumStartCallers
NoTaxi == 0            \* assigned_taxi = None
NoReq == 0

\* The points requests use, all on one parallel so that every distance is
\* exact: origins at 0.0, 2.0, 4.0 and 7.0, destinations at 0.0 and 2.0.
Origins == { <<0, 0>>, <<2 * Unit, 0>>, <<4 * Unit, 0>>, <<7 * Unit, 0>> }
Destinations == { <<0, 0>>, <<2 * Unit, 0>> }
SnapshotOrigins == { <<0, 0>>, <<7 * Unit, 0>> }

\* Taxi(i, plate, location) as registered before start(): one at each end.
InitialLocation(t) == IF t = 1 THEN <<0, 0>> ELSE <<4 * Unit, 0>>

\* random.uniform(3.7, 5.0), the two ends of the interval
RatingSamples == { 370, 500 }

Abs(x) == IF x < 0 THEN -x ELSE x

\* floor of the square root
ISqrt(n) == CHOOSE r \in 0..n : r * r <= n /\ (r + 1) * (r + 1) > n

\* math.dist(p, q), exact on the points used here
Dist(p, q) ==
  IF p[2] = q[2] THEN Abs(p[1] - q[1])
  ELSE IF p[1] = q[1] THEN Abs(p[2] - q[2])
  ELSE ISqrt((p[1] - q[1]) * (p[1] - q[1]) + (p[2] - q[2]) * (p[2] - q[2]))

\* round(n / d) for n >= 0, halves to the even neighbour (Python's round)
RoundHalfEven(n, d) ==
  LET q == n \div d
      r == n % d
  IN  IF 2 * r < d THEN q
      ELSE IF 2 * r > d THEN q + 1
      ELSE IF q % 2 = 0 THEN q ELSE q + 1

\* fare = round(dist * 1.6 + 2.0, 2), in cents
Fare(origin, destination) ==
  RoundHalfEven(Dist(origin, destination) * FarePerUnit + BaseFare * Unit, Unit)

\* ------------------------------------------------------- float arithmetic
\* fare, earnings and company_monthly_profit are Python floats (IEEE 754
\* binary64).  Where the rounding of each operation matters an amount is the
\* natural number of units of 2^-60 it holds, written as its digits in base
\* 1024, lowest first, without leading zeros (0.0 is << >>).  All amounts
\* here are at least 2^-7, so every binary64 value among them is a whole
\* number of units.
Precision == 53        \* bits of a binary64 significand
LimbBits == 10         \* bits of one digit
Base == 1024
ScaleLimbs == 6        \* digits below the point

Pow2(k) == 2 ^ k

RECURSIVE Trim(_)
Trim(b) ==
  IF b = << >> \/ b[Len(b)] # 0 THEN b ELSE Trim(SubSeq(b, 1, Len(b) - 1))

RECURSIVE FromInt(_)
FromInt(n) == IF n = 0 THEN << >> ELSE << n % Base >> \o FromInt(n \div Base)

\* b * Base^k
Shift(b, k) == IF b = << >> THEN b ELSE [ i \in 1..k |-> 0 ] \o b

RECURSIVE AddCarry(_, _, _)
AddCarry(a, b, c) ==
  IF a = << >> /\ b = << >>
  THEN IF c = 0 THEN << >> ELSE << c >>
  ELSE LET x == IF a = << >> THEN 0 ELSE Head(a)
           y == IF b = << >> THEN 0 ELSE Head(b)
           s == x + y + c
       IN  << s % Base >> \o AddCarry(IF a = << >> THEN a ELSE Tail(a),
                                      IF b = << >> THEN b ELSE Tail(b),
                                      s \div Base)

\* a + b, exact
NatAdd(a, b) == AddCarry(a, b, 0)

RECURSIVE SubBorrow(_, _, _)
SubBorrow(a, b, c) ==
  IF a = << >> THEN << >>
  ELSE LET y == IF b = << >> THEN 0 ELSE Head(b)
           d == Head(a) - y - c
       IN  << d % Base >> \o SubBorrow(Tail(a), IF b = << >> THEN b ELSE Tail(b),
                                       IF d < 0 THEN 1 ELSE 0)

\* a - b for a >= b, exact
NatSub(a, b) == Trim(SubBorrow(a, b, 0))

\* b * m + c for one digit m
RECURSIVE ScaleBy(_, _, _)
ScaleBy(b, m, c) ==
  IF b = << >>
  THEN IF c = 0 THEN << >> ELSE << c >>
  ELSE LET p == Head(b) * m + c
       IN  << p % Base >> \o ScaleBy(Tail(b), m, p \div Base)

\* a * b, exact
RECURSIVE NatMul(_, _)
NatMul(a, b) ==
  IF a = << >> \/ b = << >> THEN << >>
  ELSE LET rest == Shift(NatMul(Tail(a), b), 1)
       IN  IF Head(a) = 0 THEN rest ELSE NatAdd(ScaleBy(b, Head(a), 0), rest)

\* long division by the small number d, from digit i down, with remainder
\* r and quotient digits q so far
RECURSIVE DivFrom(_, _, _, _, _)
DivFrom(a, d, i, r, q) ==
  IF i = 0 THEN [ q |-> q, r |-> r ]
  ELSE DivFrom(a, d, i - 1, (r * Base + a[i]) % d,
               << (r * Base + a[i]) \div d >> \o q)

\* quotient and remainder of a by the small number d
DivSmall(a, d) == DivFrom(a, d, Len(a), 0, << >>)

\* the number of bits of b # 0
BitLen(b) ==
  LimbBits * (Len(b) - 1)
    + (CHOOSE k \in 1..LimbBits : Pow2(k - 1) <= b[Len(b)] /\ b[Len(b)] < Pow2(k))

\* the nearest number with Precision significant bits, ties to the even one
\* (the rounding of every binary64 operation)
RoundToDouble(b) ==
  IF b = << >> THEN b
  ELSE IF BitLen(b) <= Precision THEN b
  ELSE LET d == BitLen(b) - Precision
           BitAt(i) == (b[(i - 1) \div LimbBits + 1] \div Pow2((i - 1) % LimbBits)) % 2
           w == d \div LimbBits
           s == d % LimbBits
           sticky == \E i \in 1..(d - 1) : BitAt(i) = 1
           up == BitAt(d) = 1 /\ (sticky \/ BitAt(d + 1) = 1)
           kept == [ i \in 1..Len(b) |->
                     IF i <= w THEN 0
                     ELSE IF i = w + 1 THEN (b[i] \div Pow2(s)) * Pow2(s)
                     ELSE b[i] ]
       IN  IF up THEN NatAdd(kept, Shift(<< Pow2(s) >>, w)) ELSE kept

\* x + y and x - y as floats
DAdd(x, y) == RoundToDouble(NatAdd(x, y))

DSub(x, y) == RoundToDouble(NatSub(x, y))

\* x * y as floats: the exact product has 2 * ScaleLimbs digits below the
\* point, and the rounded one has zeros in the lower ScaleLimbs of them
DMul(x, y) ==
  LET p == RoundToDouble(NatMul(x, y))
  IN  SubSeq(p, ScaleLimbs + 1, Len(p))

\* the float nearest to n / d: a decimal literal such as 0.20, and the
\* result of round(x, 2); a remainder only tells a tie from a non-tie
DFromDecimal(n, d) ==
  LET div == DivSmall(Shift(FromInt(n), 2 * ScaleLimbs), d)
      q == Trim(div.q)
      p == RoundToDouble(IF div.r = 0 THEN q
                         ELSE << q[1] - (q[1] % 2) + 1 >> \o Tail(q))
  IN  SubSeq(p, ScaleLimbs + 1, Len(p))

\* mutant of InRadius: the comparison the wrong way round
InRadiusFlipped(d) == d >= MATCH_RADIUS * Unit

\* taxi.distance_to(req.origin) <= MATCH_RADIUS
InRadius(d) == d <= MATCH_RADIUS * Unit

\* one step of move_smooth: (lat1 + dlat*(i+1), lon1 + dlon*(i+1))
MoveStep(start, end, steps, i) ==
  << start[1] + ((end[1] - start[1]) \div steps) * (i + 1),
     start[2] + ((end[2] - start[2]) \div steps) * (i + 1) >>

\* round((taxi.rating + sample) / 2.0, 2)
NewRating(rating, sample) == RoundHalfEven(rating + sample, 2)

\* the collection locks of CentralSystem
TopLocks == { "taxis_lock", "completed_lock", "profit_lock", "requests_lock",
              "ts_lock" }

\* the threads that take locks, and the owner of a lock nobody holds
Thr(kind, id) == [ kind |-> kind, id |-> id ]
Free == Thr("free", 0)
SnapThread == Thr("get_snapshot", 0)
HistThread == Thr("get_history", 0)
SubThread == Thr("create_client_request", 0)
AdjThread(a) == Thr("_adjudicator", a)
SvcThread(r) == Thr("_service", r)

VARIABLES
  taxis,                  \* self.taxis: taxi_id -> Taxi
  requests,               \* self.requests: queue.Queue of request ids
  requests_index,         \* self.requests_index: request_id -> RequestObj
  request_counter,        \* self.request_counter
  binary_semaphore,       \* self.binary_semaphore, its count
  completed_services,     \* self.completed_services, request ids
  company_monthly_profit, \* self.company_monthly_profit
  time_series,            \* self.time_series (completed and profit samples)
  running,                \* self.running
  adj,                    \* the adjudicator threads: position and locals
  adjudicator_thread,     \* self.adjudicator_thread, the thread it refers to
  starter,                \* the callers of start(): position in the call
  web,                    \* a call of the /request handler in progress
  locks,                  \* the owner of each collection lock
  taxi_locks,             \* the owner of each Taxi.lock
  attempted,              \* history: the requests the adjudicator has taken
  svc,                    \* the _service thread of each request
  snap,                   \* a get_snapshot call in progress
  held                    \* history: what each taxi was while it was being read

vars == << taxis, requests, requests_index, request_counter, binary_semaphore,
           completed_services, company_monthly_profit, time_series, running,
           adj, adjudicator_thread, starter, web, locks, taxi_locks,
           attempted, svc, snap, held >>

\* what the steps of the engine's own threads leave alone: the callers
callers == << adjudicator_thread, starter, web >>

\* the locks
lockvars == << locks, taxi_locks >>

AdjIdle == [ pc |-> "dead", req |-> NoReq, idx |-> 0, candidates |-> << >>,
             keys |-> << >>, chosen |-> NoTaxi ]

SvcNone == [ pc |-> "none", taxi |-> NoTaxi, start_pos |-> <<0, 0>>, i |-> 0,
             fare |-> 0 ]

\* a snapshot entry no field of which has been read yet
NotRead == [ location |-> <<0, 0>>, rating |-> 0, available |-> FALSE,
             earnings |-> 0 ]

\* the /request handler: not called, or between its check and its call
WebIdle == [ pc |-> "idle", error |-> FALSE, rid |-> 0 ]

SnapIdle == [ pc |-> "idle", idx |-> 0, fld |-> 0,
              taxis |-> [ t \in TaxiIds |-> NotRead ], pending |-> << >>,
              timeseries |-> << >>, completed |-> 0, profit |-> 0,
              running |-> FALSE ]

Init ==
  /\ taxis = [ t \in TaxiIds |->
               [ location |-> InitialLocation(t), rating |-> InitialRating,
                 available |-> TRUE, earnings |-> 0 ] ]
  /\ requests = << >>
  /\ requests_index = << >>
  /\ request_counter = 0
  /\ binary_semaphore = 1
  /\ completed_services = << >>
  /\ company_monthly_profit = 0
  /\ time_series = << >>
  /\ running = FALSE
  /\ adj = [ a \in AdjIds |-> AdjIdle ]
  /\ adjudicator_thread = 1
  /\ starter = [ c \in StartCallers |-> "idle" ]
  /\ web = WebIdle
  /\ locks = [ l \in TopLocks |-> Free ]
  /\ taxi_locks = [ t \in TaxiIds |-> Free ]
  /\ attempted = {}
  /\ svc = [ r \in ReqIds |-> SvcNone ]
  /\ snap = SnapIdle
  /\ held = [ t \in TaxiIds |-> {} ]

\* get_snapshot holds taxis_lock, completed_lock, profit_lock, requests_lock
SnapshotHoldsLocks == snap.pc # "idle"

\* an adjudicator holds taxis_lock from the first to the last taxi of a scan
AdjHoldsTaxisLock == \E a \in AdjIds : adj[a].pc = "scan" /\ adj[a].idx > 1

\* `with lock:` can be entered by thread th: the lock is free, or th has
\* taken it in an earlier step
CanEnter(th, l) == locks[l] \in { Free, th }

CanEnterTaxi(th, t) == taxi_locks[t] \in { Free, th }

\* Thread.is_alive(): started and not finished
IsAlive(a) == adj[a].pc \notin { "new", "dead" }

\* history: while get_snapshot is reading the fields of taxi snap.idx, every
\* value that taxi takes is recorded
Observe(newTaxis) ==
  IF snap.pc = "taxis"
  THEN [ held EXCEPT ![snap.idx] = @ \cup { newTaxis[snap.idx] } ]
  ELSE held

\* mutant of create_client_request: the increment of the counter is lost
\* when another request is still queued
create_client_requestLostUpdate(origin, dest) ==
  /\ Len(requests_index) < MaxRequests
  /\ ~SnapshotHoldsLocks
  /\ CanEnter(SubThread, "requests_lock")
  /\ LET rid == request_counter + 1
     IN  /\ request_counter' = IF requests = << >> THEN rid ELSE request_counter
         /\ requests' = Append(requests, rid)
         /\ requests_index' = Append(requests_index,
               [ origin |-> origin, destination |-> dest,
                 assigned_taxi |-> NoTaxi, completed |-> FALSE, fare |-> 0 ])
  /\ locks' = [ locks EXCEPT !["requests_lock"] = Free ]
  /\ UNCHANGED << taxis, binary_semaphore, completed_services,
                  company_monthly_profit, time_series, running, adj, svc, snap,
                  held, adjudicator_thread, starter, taxi_locks, attempted >>

\* ------------------------------------------------------------ submitters
\* lines 110-119, the body under requests_lock; the caller is a client thread
\* of start_sim or the /request handler, whose own position is `web`
create_client_request(origin, dest) ==
  /\ request_counter < MaxRequests
  /\ ~SnapshotHoldsLocks
  /\ CanEnter(SubThread, "requests_lock")
  /\ LET rid == request_counter + 1
     IN  /\ request_counter' = rid
         /\ requests' = Append(requests, rid)
         /\ requests_index' = Append(requests_index,
               [ origin |-> origin, destination |-> dest,
                 assigned_taxi |-> NoTaxi, completed |-> FALSE, fare |-> 0 ])
  /\ locks' = [ locks EXCEPT !["requests_lock"] = Free ]
  /\ UNCHANGED << taxis, binary_semaphore, completed_services,
                  company_monthly_profit, time_series, running, adj, svc, snap,
                  held, adjudicator_thread, starter, taxi_locks, attempted >>

\* line 469 of the /request handler: `if not central or not central.running`
create_request_check ==
  /\ web.pc = "idle"
  /\ web' = IF running
            THEN [ pc |-> "checked", error |-> FALSE, rid |-> 0 ]
            ELSE [ pc |-> "idle", error |-> TRUE, rid |-> 0 ]
  /\ UNCHANGED << taxis, requests, requests_index, request_counter,
                  binary_semaphore, completed_services, company_monthly_profit,
                  time_series, running, adj, svc, snap, held,
                  adjudicator_thread, starter, lockvars, attempted >>

\* line 479 of the /request handler: central.create_client_request(...)
create_request(origin, dest) ==
  /\ web.pc = "checked"
  /\ create_client_request(origin, dest)
  /\ web' = [ pc |-> "idle", error |-> FALSE, rid |-> request_counter' ]

\* ------------------------------------------------------------ start / stop
\* start(), called by one thread at a time: lines 122-125 in one step
start ==
  /\ running' = TRUE
  /\ adj' = IF IsAlive(adjudicator_thread) THEN adj
            ELSE [ adj EXCEPT ![adjudicator_thread] = [ AdjIdle EXCEPT !.pc = "wait" ] ]
  /\ UNCHANGED << taxis, requests, requests_index, request_counter,
                  binary_semaphore, completed_services, company_monthly_profit,
                  time_series, svc, snap, held, callers, lockvars, attempted >>

\* start() called by several threads, line by line.  Line 122
StartFlag(c) ==
  /\ starter[c] = "idle"
  /\ running' = TRUE
  /\ starter' = [ starter EXCEPT ![c] = "check" ]
  /\ UNCHANGED << taxis, requests, requests_index, request_counter,
                  binary_semaphore, completed_services, company_monthly_profit,
                  time_series, adj, svc, snap, held, adjudicator_thread, web,
                  lockvars, attempted >>

\* line 123: `if not self.adjudicator_thread.is_alive()`
StartCheck(c) ==
  /\ starter[c] = "check"
  /\ starter' = [ starter EXCEPT ![c] =
                    IF IsAlive(adjudicator_thread) THEN "idle" ELSE "create" ]
  /\ UNCHANGED << taxis, requests, requests_index, request_counter,
                  binary_semaphore, completed_services, company_monthly_profit,
                  time_series, running, adj, svc, snap, held,
                  adjudicator_thread, web, lockvars, attempted >>

\* the Thread objects line 124 can take: the one self.adjudicator_thread
\* refers to when that thread does not run (nothing else refers to it), else
\* one that is neither running nor referred to
FreshThreads ==
  IF ~IsAlive(adjudicator_thread) THEN { adjudicator_thread }
  ELSE { a \in AdjIds : ~IsAlive(a) }

\* line 124: self.adjudicator_thread = threading.Thread(...)
StartCreate(c) ==
  /\ starter[c] = "create"
  /\ \E a \in FreshThreads :
       /\ adj' = [ adj EXCEPT ![a] = [ AdjIdle EXCEPT !.pc = "new" ] ]
       /\ adjudicator_thread' = a
  /\ starter' = [ starter EXCEPT ![c] = "launch" ]
  /\ UNCHANGED << taxis, requests, requests_index, request_counter,
                  binary_semaphore, completed_services, company_monthly_profit,
                  time_series, running, svc, snap, held, web, lockvars,
                  attempted >>

\* line 125: self.adjudicator_thread.start(); a thread that was started
\* before raises RuntimeError and stays as it is
StartLaunch(c) ==
  /\ starter[c] = "launch"
  /\ adj' = IF adj[adjudicator_thread].pc = "new"
            THEN [ adj EXCEPT ![adjudicator_thread].pc = "wait" ]
            ELSE adj
  /\ starter' = [ starter EXCEPT ![c] = "idle" ]
  /\ UNCHANGED << taxis, requests, requests_index, request_counter,
                  binary_semaphore, completed_services, company_monthly_profit,
                  time_series, running, svc, snap, held, adjudicator_thread,
                  web, lockvars, attempted >>

stop ==
  /\ running' = FALSE
  /\ UNCHANGED << taxis, requests, requests_index, request_counter,
                  binary_semaphore, completed_services, company_monthly_profit,
                  time_series, adj, svc, snap, held, callers, lockvars,
                  attempted >>

\* mutant of AdjTake: the newest request of the queue is taken
AdjTakeNewest(a) ==
  /\ adj[a].pc = "wait"
  /\ running
  /\ requests # << >>
  /\ adj' = [ adj EXCEPT ![a].pc = "acquire", ![a].req = requests[Len(requests)] ]
  /\ requests' = SubSeq(requests, 1, Len(requests) - 1)
  /\ attempted' = attempted \cup { requests[Len(requests)] }
  /\ UNCHANGED << taxis, requests_index, request_counter, binary_semaphore,
                  completed_services, company_monthly_profit, time_series,
                  running, svc, snap, held, callers, lockvars >>

\* ------------------------------------------------------------ _adjudicator
\* lines 135-143: wait for work, leave when stopped, else pop the head
AdjTake(a) ==
  /\ adj[a].pc = "wait"
  /\ running
  /\ requests # << >>
  /\ adj' = [ adj EXCEPT ![a].pc = "acquire", ![a].req = Head(requests) ]
  /\ requests' = Tail(requests)
  /\ attempted' = attempted \cup { Head(requests) }
  /\ UNCHANGED << taxis, requests_index, request_counter, binary_semaphore,
                  completed_services, company_monthly_profit, time_series,
                  running, svc, snap, held, callers, lockvars >>

\* mutant of AdjExit: the flag is looked at only when the queue is empty
AdjExitOnEmptyQueue(a) ==
  /\ adj[a].pc = "wait"
  /\ ~running
  /\ requests = << >>
  /\ adj' = [ adj EXCEPT ![a] = AdjIdle ]
  /\ UNCHANGED << taxis, requests, requests_index, request_counter,
                  binary_semaphore, completed_services, company_monthly_profit,
                  time_series, running, svc, snap, held, callers, lockvars,
                  attempted >>

\* lines 134, 138-139: the loop ends once self.running is seen false
AdjExit(a) ==
  /\ adj[a].pc = "wait"
  /\ ~running
  /\ adj' = [ adj EXCEPT ![a] = AdjIdle ]
  /\ UNCHANGED << taxis, requests, requests_index, request_counter,
                  binary_semaphore, completed_services, company_monthly_profit,
                  time_series, running, svc, snap, held, callers, lockvars,
                  attempted >>

\* mutant of AdjAcquire: on a timeout the request is not queued again
AdjAcquireTimeoutDrops(a) ==
  /\ adj[a].pc = "acquire"
  /\ IF binary_semaphore > 0
     THEN /\ binary_semaphore' = binary_semaphore - 1
          /\ adj' = [ adj EXCEPT ![a].pc = "scan", ![a].idx = 1,
                                 ![a].candidates = << >>, ![a].keys = << >>,
                                 ![a].chosen = NoTaxi ]
     ELSE /\ adj' = [ adj EXCEPT ![a].pc = "wait", ![a].req = NoReq ]
          /\ UNCHANGED binary_semaphore
  /\ UNCHANGED << taxis, requests, requests_index, request_counter,
                  completed_services, company_monthly_profit, time_series,
                  running, svc, snap, held, callers, lockvars, attempted >>

\* mutant of AdjAcquire: the timeout path releases the token as well
AdjAcquireTimeoutReleases(a) ==
  /\ adj[a].pc = "acquire"
  /\ IF binary_semaphore > 0
     THEN /\ binary_semaphore' = binary_semaphore - 1
          /\ adj' = [ adj EXCEPT ![a].pc = "scan", ![a].idx = 1,
                                 ![a].candidates = << >>, ![a].keys = << >>,
                                 ![a].chosen = NoTaxi ]
          /\ UNCHANGED requests
     ELSE /\ requests' = Append(requests, adj[a].req)
          /\ adj' = [ adj EXCEPT ![a].pc = "wait", ![a].req = NoReq ]
          /\ binary_semaphore' = binary_semaphore + 1
  /\ UNCHANGED << taxis, requests_index, request_counter, completed_services,
                  company_monthly_profit, time_series, running, svc, snap,
                  held, callers, lockvars, attempted >>

\* lines 145-149: binary_semaphore.acquire(timeout=3); on a timeout the
\* request goes back to the tail of the queue
AdjAcquire(a) ==
  /\ adj[a].pc = "acquire"
  /\ IF binary_semaphore > 0
     THEN /\ binary_semaphore' = binary_semaphore - 1
          /\ adj' = [ adj EXCEPT ![a].pc = "scan", ![a].idx = 1,
                                 ![a].candidates = << >>, ![a].keys = << >>,
                                 ![a].chosen = NoTaxi ]
          /\ UNCHANGED requests
     ELSE /\ requests' = Append(requests, adj[a].req)
          /\ adj' = [ adj EXCEPT ![a].pc = "wait", ![a].req = NoReq ]
          /\ UNCHANGED binary_semaphore
  /\ UNCHANGED << taxis, requests_index, request_counter, completed_services,
                  company_monthly_profit, time_series, running, svc, snap,
                  held, callers, lockvars, attempted >>

\* the tuple order of the sort key (x[0], -x[1].rating)
KeyLess(a, b) == a.d < b.d \/ (a.d = b.d /\ a.rating > b.rating)

\* list.sort is stable: x goes behind every element that is not greater
RECURSIVE InsertSorted(_, _)
InsertSorted(s, x) ==
  IF s = << >> THEN << x >>
  ELSE IF KeyLess(x, Head(s)) THEN << x >> \o s
  ELSE << Head(s) >> \o InsertSorted(Tail(s), x)

RECURSIVE SortCandidates(_)
SortCandidates(s) ==
  IF s = << >> THEN << >>
  ELSE InsertSorted(SortCandidates(SubSeq(s, 1, Len(s) - 1)), s[Len(s)])

\* candidates with the rating each key call read
Keyed(candidates, keys) ==
  [ i \in 1..Len(candidates) |->
    [ d |-> candidates[i].d, taxi |-> candidates[i].taxi, rating |-> keys[i] ] ]

\* candidates.sort(key=...); chosen = candidates[0][1]
ChosenTaxi(candidates, keys) == SortCandidates(Keyed(candidates, keys))[1].taxi

\* _assign_taxi returned False: release the token (finally), go to back-off
AdjFailed(a) == [ adj[a] EXCEPT !.pc = "backoff", !.idx = 0, !.candidates = << >>,
                                !.keys = << >>, !.chosen = NoTaxi ]

\* lines 162-171: one taxi of the scan, read under its lock; after the last
\* one, `if not candidates: return False`
AdjScan(a) ==
  /\ adj[a].pc = "scan"
  /\ adj[a].idx > 1 \/ ~SnapshotHoldsLocks
  /\ CanEnter(AdjThread(a), "taxis_lock")
  /\ CanEnterTaxi(AdjThread(a), adj[a].idx)
  /\ LET t == adj[a].idx
         d == Dist(taxis[t].location, requests_index[adj[a].req].origin)
         cands == IF taxis[t].available /\ InRadius(d)
                  THEN Append(adj[a].candidates, [ d |-> d, taxi |-> t ])
                  ELSE adj[a].candidates
     IN  /\ taxi_locks' = [ taxi_locks EXCEPT ![t] = Free ]
         /\ IF t < NumTaxis
            THEN /\ adj' = [ adj EXCEPT ![a].idx = t + 1, ![a].candidates = cands ]
                 /\ locks' = [ locks EXCEPT !["taxis_lock"] = AdjThread(a) ]
                 /\ UNCHANGED binary_semaphore
            ELSE /\ locks' = [ locks EXCEPT !["taxis_lock"] = Free ]
                 /\ IF cands = << >>
                    THEN /\ adj' = [ adj EXCEPT ![a] = AdjFailed(a) ]
                         /\ binary_semaphore' = binary_semaphore + 1
                    ELSE /\ adj' = [ adj EXCEPT ![a].pc = "sort", ![a].idx = 1,
                                                ![a].candidates = cands ]
                         /\ UNCHANGED binary_semaphore
  /\ UNCHANGED << taxis, requests, requests_index, request_counter,
                  completed_services, company_monthly_profit, time_series,
                  running, svc, snap, held, callers, attempted >>

\* line 173: the sort calls its key once per candidate, and each call reads
\* that taxi's rating without its lock; line 174 after the last key
AdjSortKey(a) ==
  /\ adj[a].pc = "sort"
  /\ LET keys == Append(adj[a].keys,
                        taxis[adj[a].candidates[adj[a].idx].taxi].rating)
     IN  IF adj[a].idx < Len(adj[a].candidates)
         THEN adj' = [ adj EXCEPT ![a].idx = adj[a].idx + 1, ![a].keys = keys ]
         ELSE adj' = [ adj EXCEPT ![a].pc = "claim", ![a].idx = 0, ![a].keys = keys,
                           ![a].chosen = ChosenTaxi(adj[a].candidates, keys) ]
  /\ UNCHANGED << taxis, requests, requests_index, request_counter,
                  binary_semaphore, completed_services, company_monthly_profit,
                  time_series, running, svc, snap, held, callers, lockvars,
                  attempted >>

\* mutant of AdjClaim: the chosen taxi is not marked unavailable
AdjClaimUnmarked(a) ==
  /\ adj[a].pc = "claim"
  /\ CanEnterTaxi(AdjThread(a), adj[a].chosen)
  /\ IF ~taxis[adj[a].chosen].available
     THEN /\ adj' = [ adj EXCEPT ![a] = AdjFailed(a) ]
          /\ binary_semaphore' = binary_semaphore + 1
     ELSE /\ adj' = [ adj EXCEPT ![a].pc = "assign" ]
          /\ UNCHANGED binary_semaphore
  /\ taxi_locks' = [ taxi_locks EXCEPT ![adj[a].chosen] = Free ]
  /\ UNCHANGED << taxis, requests, requests_index, request_counter,
                  completed_services, company_monthly_profit, time_series,
                  running, svc, snap, held, callers, locks, attempted >>

\* lines 175-178: re-check and claim under the chosen taxi's lock
AdjClaim(a) ==
  /\ adj[a].pc = "claim"
  /\ CanEnterTaxi(AdjThread(a), adj[a].chosen)
  /\ IF ~taxis[adj[a].chosen].available
     THEN /\ adj' = [ adj EXCEPT ![a] = AdjFailed(a) ]
          /\ binary_semaphore' = binary_semaphore + 1
          /\ UNCHANGED taxis
     ELSE /\ taxis' = [ taxis EXCEPT ![adj[a].chosen].available = FALSE ]
          /\ adj' = [ adj EXCEPT ![a].pc = "assign" ]
          /\ UNCHANGED binary_semaphore
  /\ taxi_locks' = [ taxi_locks EXCEPT ![adj[a].chosen] = Free ]
  /\ held' = Observe(taxis')
  /\ UNCHANGED << requests, requests_index, request_counter,
                  completed_services, company_monthly_profit, time_series,
                  running, svc, snap, callers, locks, attempted >>

\* mutant of AdjAssign: the token is not released after a match
AdjAssignKeepsToken(a) ==
  /\ adj[a].pc = "assign"
  /\ requests_index' = [ requests_index EXCEPT
                           ![adj[a].req].assigned_taxi = adj[a].chosen ]
  /\ svc' = [ svc EXCEPT ![adj[a].req] = [ SvcNone EXCEPT !.pc = "start",
                                                          !.taxi = adj[a].chosen ] ]
  /\ adj' = [ adj EXCEPT ![a] = [ AdjIdle EXCEPT !.pc = "wait" ] ]
  /\ UNCHANGED << taxis, requests, request_counter, binary_semaphore,
                  completed_services, company_monthly_profit, time_series,
                  running, snap, held, callers, lockvars, attempted >>

\* mutant of AdjAssign: the matched request is put back on the queue as an
\* unmatched one is
AdjAssignRequeues(a) ==
  /\ adj[a].pc = "assign"
  /\ requests_index' = [ requests_index EXCEPT
                           ![adj[a].req].assigned_taxi = adj[a].chosen ]
  /\ svc' = [ svc EXCEPT ![adj[a].req] = [ SvcNone EXCEPT !.pc = "start",
                                                          !.taxi = adj[a].chosen ] ]
  /\ binary_semaphore' = binary_semaphore + 1
  /\ requests' = Append(requests, adj[a].req)
  /\ adj' = [ adj EXCEPT ![a] = [ AdjIdle EXCEPT !.pc = "wait" ] ]
  /\ UNCHANGED << taxis, request_counter, completed_services,
                  company_monthly_profit, time_series, running, snap, held,
                  callers, lockvars, attempted >>

\* lines 179-181 and 153: record the taxi in the request, start the _service
\* thread, return True, release the token
AdjAssign(a) ==
  /\ adj[a].pc = "assign"
  /\ requests_index' = [ requests_index EXCEPT
                           ![adj[a].req].assigned_taxi = adj[a].chosen ]
  /\ svc' = [ svc EXCEPT ![adj[a].req] = [ SvcNone EXCEPT !.pc = "start",
                                                          !.taxi = adj[a].chosen ] ]
  /\ binary_semaphore' = binary_semaphore + 1
  /\ adj' = [ adj EXCEPT ![a] = [ AdjIdle EXCEPT !.pc = "wait" ] ]
  /\ UNCHANGED << taxis, requests, request_counter, completed_services,
                  company_monthly_profit, time_series, running, snap, held,
                  callers, lockvars, attempted >>

\* lines 179-180 and 150-153: Thread.start() raises (no thread can be
\* created): the taxi is recorded in the request, no _service runs, the
\* finally releases the token and the exception ends the adjudicator thread
AdjAssignRaises(a) ==
  /\ adj[a].pc = "assign"
  /\ requests_index' = [ requests_index EXCEPT
                           ![adj[a].req].assigned_taxi = adj[a].chosen ]
  /\ binary_semaphore' = binary_semaphore + 1
  /\ adj' = [ adj EXCEPT ![a] = AdjIdle ]
  /\ UNCHANGED << taxis, requests, request_counter, completed_services,
                  company_monthly_profit, time_series, running, svc, snap, held,
                  callers, lockvars, attempted >>

\* mutant of AdjRequeue: the unmatched request is not queued again
AdjRequeueDropped(a) ==
  /\ adj[a].pc = "backoff"
  /\ adj' = [ adj EXCEPT ![a] = [ AdjIdle EXCEPT !.pc = "wait" ] ]
  /\ UNCHANGED << taxis, requests, requests_index, request_counter,
                  binary_semaphore, completed_services, company_monthly_profit,
                  time_series, running, svc, snap, held, callers, lockvars,
                  attempted >>

\* lines 155-158: after the back-off sleep the request is queued again
AdjRequeue(a) ==
  /\ adj[a].pc = "backoff"
  /\ requests' = Append(requests, adj[a].req)
  /\ adj' = [ adj EXCEPT ![a] = [ AdjIdle EXCEPT !.pc = "wait" ] ]
  /\ UNCHANGED << taxis, requests_index, request_counter, binary_semaphore,
                  completed_services, company_monthly_profit, time_series,
                  running, svc, snap, held, callers, lockvars, attempted >>

\* ---------------------------------------------------------------- _service
\* lines 195-196: start_pos = taxi.location, under the taxi's lock
SvcStart(r) ==
  /\ svc[r].pc = "start"
  /\ CanEnterTaxi(SvcThread(r), svc[r].taxi)
  /\ svc' = [ svc EXCEPT ![r].pc = "pickup", ![r].i = 0,
                         ![r].start_pos = taxis[svc[r].taxi].location ]
  /\ taxi_locks' = [ taxi_locks EXCEPT ![svc[r].taxi] = Free ]
  /\ UNCHANGED << taxis, requests, requests_index, request_counter,
                  binary_semaphore, completed_services, company_monthly_profit,
                  time_series, running, adj, snap, held,
                  callers, attempted, locks >>

\* line 197: one step of the leg to the client
SvcPickup(r) ==
  /\ svc[r].pc = "pickup"
  /\ CanEnterTaxi(SvcThread(r), svc[r].taxi)
  /\ taxis' = [ taxis EXCEPT ![svc[r].taxi].location =
                  MoveStep(svc[r].start_pos, requests_index[r].origin,
                           PickupSteps, svc[r].i) ]
  /\ svc' = IF svc[r].i + 1 < PickupSteps
            THEN [ svc EXCEPT ![r].i = svc[r].i + 1 ]
            ELSE [ svc EXCEPT ![r].pc = "trip", ![r].i = 0 ]
  /\ held' = Observe(taxis')
  /\ taxi_locks' = [ taxi_locks EXCEPT ![svc[r].taxi] = Free ]
  /\ UNCHANGED << requests, requests_index, request_counter, binary_semaphore,
                  completed_services, company_monthly_profit, time_series,
                  running, adj, snap,
                  callers, attempted, locks >>

\* mutant of SvcTrip: the trip goes on only while the engine runs
SvcTripWhileRunning(r) ==
  /\ svc[r].pc = "trip"
  /\ running
  /\ CanEnterTaxi(SvcThread(r), svc[r].taxi)
  /\ taxis' = [ taxis EXCEPT ![svc[r].taxi].location =
                  MoveStep(requests_index[r].origin, requests_index[r].destination,
                           TripSteps, svc[r].i) ]
  /\ svc' = IF svc[r].i + 1 < TripSteps
            THEN [ svc EXCEPT ![r].i = svc[r].i + 1 ]
            ELSE [ svc EXCEPT ![r].pc = "finalize", ![r].i = 0 ]
  /\ taxi_locks' = [ taxi_locks EXCEPT ![svc[r].taxi] = Free ]
  /\ held' = Observe(taxis')
  /\ UNCHANGED << requests, requests_index, request_counter, binary_semaphore,
                  completed_services, company_monthly_profit, time_series,
                  running, adj, snap, callers, attempted, locks >>

\* line 200: one step of the leg to the destination
SvcTrip(r) ==
  /\ svc[r].pc = "trip"
  /\ CanEnterTaxi(SvcThread(r), svc[r].taxi)
  /\ taxis' = [ taxis EXCEPT ![svc[r].taxi].location =
                  MoveStep(requests_index[r].origin, requests_index[r].destination,
                           TripSteps, svc[r].i) ]
  /\ svc' = IF svc[r].i + 1 < TripSteps
            THEN [ svc EXCEPT ![r].i = svc[r].i + 1 ]
            ELSE [ svc EXCEPT ![r].pc = "finalize", ![r].i = 0 ]
  /\ held' = Observe(taxis')
  /\ taxi_locks' = [ taxi_locks EXCEPT ![svc[r].taxi] = Free ]
  /\ UNCHANGED << requests, requests_index, request_counter, binary_semaphore,
                  completed_services, company_monthly_profit, time_series,
                  running, adj, snap,
                  callers, attempted, locks >>

\* mutant of SvcFinalize: the taxi is paid but not made available again
SvcFinalizeNotReleased(r) ==
  /\ svc[r].pc = "finalize"
  /\ CanEnterTaxi(SvcThread(r), svc[r].taxi)
  /\ LET fare == Fare(requests_index[r].origin, requests_index[r].destination)
         t == svc[r].taxi
     IN  /\ taxis' = [ taxis EXCEPT
                ![t].location = requests_index[r].destination,
                ![t].earnings = taxis[t].earnings + fare * (100 - SERVICE_FEE_PCT) ]
         /\ svc' = [ svc EXCEPT ![r].pc = "fare", ![r].fare = fare ]
  /\ taxi_locks' = [ taxi_locks EXCEPT ![svc[r].taxi] = Free ]
  /\ held' = Observe(taxis')
  /\ UNCHANGED << requests, requests_index, request_counter, binary_semaphore,
                  completed_services, company_monthly_profit, time_series,
                  running, adj, snap, callers, attempted, locks >>

\* lines 203-208: the fare, then position, availability and earnings under
\* the taxi's lock
SvcFinalize(r) ==
  /\ svc[r].pc = "finalize"
  /\ CanEnterTaxi(SvcThread(r), svc[r].taxi)
  /\ LET fare == Fare(requests_index[r].origin, requests_index[r].destination)
         t == svc[r].taxi
     IN  /\ taxis' = [ taxis EXCEPT
                ![t].location = requests_index[r].destination,
                ![t].available = TRUE,
                ![t].earnings = taxis[t].earnings + fare * (100 - SERVICE_FEE_PCT) ]
         /\ svc' = [ svc EXCEPT ![r].pc = "fare", ![r].fare = fare ]
  /\ held' = Observe(taxis')
  /\ taxi_locks' = [ taxi_locks EXCEPT ![svc[r].taxi] = Free ]
  /\ UNCHANGED << requests, requests_index, request_counter, binary_semaphore,
                  completed_services, company_monthly_profit, time_series,
                  running, adj, snap,
                  callers, attempted, locks >>

\* SERVICE_FEE_RATE = 0.20 and the literal 1 as floats
FloatRate == DFromDecimal(SERVICE_FEE_PCT, 100)

FloatOne == DFromDecimal(1, 1)

\* lines 203-208 with the amounts as the floats Python computes: fare is the
\* float nearest to the rounded decimal, and line 208 rounds 1 - rate, the
\* product and the sum
SvcFinalizeFloat(r) ==
  /\ svc[r].pc = "finalize"
  /\ CanEnterTaxi(SvcThread(r), svc[r].taxi)
  /\ LET fare == DFromDecimal(
                   Fare(requests_index[r].origin, requests_index[r].destination), 100)
         t == svc[r].taxi
     IN  /\ taxis' = [ taxis EXCEPT
                ![t].location = requests_index[r].destination,
                ![t].available = TRUE,
                ![t].earnings = DAdd(taxis[t].earnings,
                                     DMul(fare, DSub(FloatOne, FloatRate))) ]
         /\ svc' = [ svc EXCEPT ![r].pc = "fare", ![r].fare = fare ]
  /\ held' = Observe(taxis')
  /\ taxi_locks' = [ taxi_locks EXCEPT ![svc[r].taxi] = Free ]
  /\ UNCHANGED << requests, requests_index, request_counter, binary_semaphore,
                  completed_services, company_monthly_profit, time_series,
                  running, adj, snap,
                  callers, attempted, locks >>

\* mutant of SvcSetFare: the fare is never stored in the request
SvcSetFareSkipped(r) ==
  /\ svc[r].pc = "fare"
  /\ svc' = [ svc EXCEPT ![r].pc = "completed" ]
  /\ UNCHANGED << taxis, requests, requests_index, request_counter,
                  binary_semaphore, completed_services, company_monthly_profit,
                  time_series, running, adj, snap, held,
                  callers, attempted, lockvars >>

\* line 210: req.fare = fare
SvcSetFare(r) ==
  /\ svc[r].pc = "fare"
  /\ requests_index' = [ requests_index EXCEPT ![r].fare = svc[r].fare ]
  /\ svc' = [ svc EXCEPT ![r].pc = "completed" ]
  /\ UNCHANGED << taxis, requests, request_counter, binary_semaphore,
                  completed_services, company_monthly_profit, time_series,
                  running, adj, snap, held,
                  callers, attempted, lockvars >>

\* line 211: req.completed = True
SvcSetCompleted(r) ==
  /\ svc[r].pc = "completed"
  /\ requests_index' = [ requests_index EXCEPT ![r].completed = TRUE ]
  /\ svc' = [ svc EXCEPT ![r].pc = "append" ]
  /\ UNCHANGED << taxis, requests, request_counter, binary_semaphore,
                  completed_services, company_monthly_profit, time_series,
                  running, adj, snap, held,
                  callers, attempted, lockvars >>

\* lines 212-213: completed_services.append(req), under completed_lock
SvcAppend(r) ==
  /\ svc[r].pc = "append"
  /\ CanEnter(SvcThread(r), "completed_lock")
  /\ ~SnapshotHoldsLocks
  /\ completed_services' = Append(completed_services, r)
  /\ svc' = [ svc EXCEPT ![r].pc = "profit" ]
  /\ locks' = [ locks EXCEPT !["completed_lock"] = Free ]
  /\ UNCHANGED << taxis, requests, requests_index, request_counter,
                  binary_semaphore, company_monthly_profit, time_series,
                  running, adj, snap, held,
                  callers, attempted, taxi_locks >>

\* lines 214-215: the company's share, under profit_lock
SvcProfit(r) ==
  /\ svc[r].pc = "profit"
  /\ CanEnter(SvcThread(r), "profit_lock")
  /\ ~SnapshotHoldsLocks
  /\ company_monthly_profit' = company_monthly_profit + svc[r].fare * SERVICE_FEE_PCT
  /\ svc' = [ svc EXCEPT ![r].pc = "rating" ]
  /\ locks' = [ locks EXCEPT !["profit_lock"] = Free ]
  /\ UNCHANGED << taxis, requests, requests_index, request_counter,
                  binary_semaphore, completed_services, time_series,
                  running, adj, snap, held,
                  callers, attempted, taxi_locks >>

\* lines 214-215 with the amounts as floats
SvcProfitFloat(r) ==
  /\ svc[r].pc = "profit"
  /\ CanEnter(SvcThread(r), "profit_lock")
  /\ ~SnapshotHoldsLocks
  /\ company_monthly_profit' =
       DAdd(company_monthly_profit, DMul(svc[r].fare, FloatRate))
  /\ svc' = [ svc EXCEPT ![r].pc = "rating" ]
  /\ locks' = [ locks EXCEPT !["profit_lock"] = Free ]
  /\ UNCHANGED << taxis, requests, requests_index, request_counter,
                  binary_semaphore, completed_services, time_series,
                  running, adj, snap, held,
                  callers, attempted, taxi_locks >>

\* lines 217-218: the new rating, under the taxi's lock
SvcRating(r) ==
  /\ svc[r].pc = "rating"
  /\ CanEnterTaxi(SvcThread(r), svc[r].taxi)
  /\ \E sample \in RatingSamples :
       taxis' = [ taxis EXCEPT ![svc[r].taxi].rating =
                    NewRating(taxis[svc[r].taxi].rating, sample) ]
  /\ svc' = [ svc EXCEPT ![r].pc = "series" ]
  /\ held' = Observe(taxis')
  /\ taxi_locks' = [ taxi_locks EXCEPT ![svc[r].taxi] = Free ]
  /\ UNCHANGED << requests, requests_index, request_counter, binary_semaphore,
                  completed_services, company_monthly_profit, time_series,
                  running, adj, snap,
                  callers, attempted, locks >>

\* lines 221-225: one sample of the time series, under ts_lock (the
\* timestamp itself is wall-clock time and carries no state here)
SvcTimeSeries(r) ==
  /\ svc[r].pc = "series"
  /\ CanEnter(SvcThread(r), "ts_lock")
  /\ time_series' = Append(time_series,
        [ completed |-> Len(completed_services), profit |-> company_monthly_profit ])
  /\ svc' = [ svc EXCEPT ![r] = [ SvcNone EXCEPT !.pc = "done", !.taxi = svc[r].taxi ] ]
  /\ locks' = [ locks EXCEPT !["ts_lock"] = Free ]
  /\ UNCHANGED << taxis, requests, requests_index, request_counter,
                  binary_semaphore, completed_services, company_monthly_profit,
                  running, adj, snap, held,
                  callers, attempted, taxi_locks >>

\* mutant of SnapLockOrder: the four locks in the opposite order
SnapLockOrderReversed ==
  << "requests_lock", "profit_lock", "completed_lock", "taxis_lock" >>

\* ------------------------------------------------------------ get_snapshot
\* line 228: the four collection locks, in the order taxis, completed,
\* profit, requests
\* `with self.taxis_lock, self.completed_lock, self.profit_lock,
\* self.requests_lock`: the order the locks are taken in
SnapLockOrder == << "taxis_lock", "completed_lock", "profit_lock", "requests_lock" >>

SnapLocks == { SnapLockOrder[i] : i \in 1..Len(SnapLockOrder) }

SnapAcquire ==
  /\ snap.pc = "idle"
  /\ \A l \in SnapLocks : CanEnter(SnapThread, l)
  /\ ~AdjHoldsTaxisLock
  /\ snap' = [ SnapIdle EXCEPT !.pc = "taxis", !.idx = 1, !.fld = 1 ]
  /\ held' = [ t \in TaxiIds |-> IF t = 1 THEN { taxis[t] } ELSE {} ]
  /\ locks' = [ l \in TopLocks |-> IF l \in SnapLocks THEN SnapThread ELSE locks[l] ]
  /\ UNCHANGED << taxis, requests, requests_index, request_counter,
                  binary_semaphore, completed_services, company_monthly_profit,
                  time_series, running, adj, svc,
                  callers, attempted, taxi_locks >>

\* the entry of taxi t after reading field f: 'loc', 'rating', 'avail',
\* 'earnings', in the order of the dict display of line 229
ReadField(entry, t, f) ==
  IF f = 1 THEN [ entry EXCEPT !.location = taxis[t].location ]
  ELSE IF f = 2 THEN [ entry EXCEPT !.rating = taxis[t].rating ]
  ELSE IF f = 3 THEN [ entry EXCEPT !.available = taxis[t].available ]
  ELSE [ entry EXCEPT !.earnings = taxis[t].earnings ]

\* line 229: one field of one taxi, read without the taxi's lock
SnapReadTaxi ==
  /\ snap.pc = "taxis"
  /\ LET t == snap.idx
         entry == ReadField(snap.taxis[t], t, snap.fld)
     IN  IF snap.fld < 4
         THEN /\ snap' = [ snap EXCEPT !.taxis[t] = entry, !.fld = snap.fld + 1 ]
              /\ UNCHANGED held
         ELSE IF t < NumTaxis
         THEN /\ snap' = [ snap EXCEPT !.taxis[t] = entry, !.idx = t + 1, !.fld = 1 ]
              /\ held' = [ held EXCEPT ![t + 1] = { taxis[t + 1] } ]
         ELSE /\ snap' = [ snap EXCEPT !.taxis[t] = entry,
                             !.pc = IF request_counter > 0 THEN "requests" ELSE "series",
                             !.idx = IF request_counter > 0 THEN 1 ELSE 0,
                             !.fld = IF request_counter > 0 THEN 1 ELSE 0 ]
              /\ UNCHANGED held
  /\ UNCHANGED << taxis, requests, requests_index, request_counter,
                  binary_semaphore, completed_services, company_monthly_profit,
                  time_series, running, adj, svc,
                  callers, attempted, lockvars >>

\* the reader moves on to the next request of requests_index, or to the
\* time series after the last one
SnapNextRequest(pending) ==
  IF snap.idx < request_counter
  THEN [ snap EXCEPT !.pending = pending, !.idx = snap.idx + 1, !.fld = 1 ]
  ELSE [ snap EXCEPT !.pending = pending, !.pc = "series", !.idx = 0, !.fld = 0 ]

\* line 230: `if not r.completed and r.assigned_taxi is None`, two reads of
\* fields the other threads write without a lock
SnapReadRequest ==
  /\ snap.pc = "requests"
  /\ LET r == snap.idx
     IN  IF snap.fld = 1
         THEN IF requests_index[r].completed
              THEN snap' = SnapNextRequest(snap.pending)
              ELSE snap' = [ snap EXCEPT !.fld = 2 ]
         ELSE IF requests_index[r].assigned_taxi = NoTaxi
              THEN snap' = SnapNextRequest(Append(snap.pending, r))
              ELSE snap' = SnapNextRequest(snap.pending)
  /\ UNCHANGED << taxis, requests, requests_index, request_counter,
                  binary_semaphore, completed_services, company_monthly_profit,
                  time_series, running, adj, svc, held,
                  callers, attempted, lockvars >>

\* lines 232-233: the copy of the time series, under ts_lock
SnapSeries ==
  /\ snap.pc = "series"
  /\ CanEnter(SnapThread, "ts_lock")
  /\ snap' = [ snap EXCEPT !.pc = "build", !.timeseries = time_series ]
  /\ locks' = [ locks EXCEPT !["ts_lock"] = Free ]
  /\ UNCHANGED << taxis, requests, requests_index, request_counter,
                  binary_semaphore, completed_services, company_monthly_profit,
                  time_series, running, adj, svc, held,
                  callers, attempted, taxi_locks >>

\* line 234: the returned dict is built with the locks still held
SnapBuild ==
  /\ snap.pc = "build"
  /\ snap' = [ snap EXCEPT !.pc = "built", !.running = running,
                           !.completed = Len(completed_services),
                           !.profit = company_monthly_profit ]
  /\ UNCHANGED << taxis, requests, requests_index, request_counter,
                  binary_semaphore, completed_services, company_monthly_profit,
                  time_series, running, adj, svc, held,
                  callers, attempted, lockvars >>

\* the call returns: the locks are released and the caller has the dict
SnapReturn ==
  /\ snap.pc = "built"
  /\ snap' = SnapIdle
  /\ held' = [ t \in TaxiIds |-> {} ]
  /\ locks' = [ l \in TopLocks |-> IF l \in SnapLocks THEN Free ELSE locks[l] ]
  /\ UNCHANGED << taxis, requests, requests_index, request_counter,
                  binary_semaphore, completed_services, company_monthly_profit,
                  time_series, running, adj, svc,
                  callers, attempted, taxi_locks >>

\* get_history: the completed trips in completion order, under completed_lock
get_history ==
  [ i \in 1..Len(completed_services) |->
    [ rid |-> completed_services[i],
      taxi |-> requests_index[completed_services[i]].assigned_taxi,
      fare |-> requests_index[completed_services[i]].fare ] ]

\* ---------------------------------------------------------------- locking
\* Every `with lock:` block above runs in one step, which is all there is to
\* see of a block that waits for nothing.  The steps below let a thread take
\* a lock in a step of its own and hold it until the step of the block, so
\* that a thread can hold one lock while it waits for the next.

\* everything but the locks
data == << taxis, requests, requests_index, request_counter, binary_semaphore,
           completed_services, company_monthly_profit, time_series, running,
           adj, svc, snap, held, callers, attempted >>

\* the locks get_snapshot holds so far: it takes them in SnapLockOrder
SnapTaken == { i \in 1..Len(SnapLockOrder) : locks[SnapLockOrder[i]] = SnapThread }

\* line 228: the next lock of the `with` statement
SnapLock ==
  /\ snap.pc = "idle"
  /\ Cardinality(SnapTaken) < Len(SnapLockOrder)
  /\ LET l == SnapLockOrder[Cardinality(SnapTaken) + 1]
     IN  /\ locks[l] = Free
         /\ locks' = [ locks EXCEPT ![l] = SnapThread ]
  /\ UNCHANGED << data, taxi_locks >>

\* line 232: ts_lock, inside the four
SnapLockSeries ==
  /\ snap.pc = "series"
  /\ locks["ts_lock"] = Free
  /\ locks' = [ locks EXCEPT !["ts_lock"] = SnapThread ]
  /\ UNCHANGED << data, taxi_locks >>

\* line 110: requests_lock
SubLock ==
  /\ request_counter < MaxRequests
  /\ locks["requests_lock"] = Free
  /\ locks' = [ locks EXCEPT !["requests_lock"] = SubThread ]
  /\ UNCHANGED << data, taxi_locks >>

\* line 162: taxis_lock, before the first taxi of a scan
AdjLockTaxis(a) ==
  /\ adj[a].pc = "scan" /\ adj[a].idx = 1
  /\ locks["taxis_lock"] = Free
  /\ locks' = [ locks EXCEPT !["taxis_lock"] = AdjThread(a) ]
  /\ UNCHANGED << data, taxi_locks >>

\* the Taxi.lock an adjudicator takes next: line 164, inside taxis_lock, or
\* line 175
AdjNextTaxi(a) == IF adj[a].pc = "scan" THEN adj[a].idx ELSE adj[a].chosen

AdjLockTaxi(a) ==
  /\ \/ adj[a].pc = "scan" /\ locks["taxis_lock"] = AdjThread(a)
     \/ adj[a].pc = "claim"
  /\ taxi_locks[AdjNextTaxi(a)] = Free
  /\ taxi_locks' = [ taxi_locks EXCEPT ![AdjNextTaxi(a)] = AdjThread(a) ]
  /\ UNCHANGED << data, locks >>

\* lines 190, 195, 205, 217: the lock of the taxi of the trip
SvcLockTaxi(r) ==
  /\ svc[r].pc \in { "start", "pickup", "trip", "finalize", "rating" }
  /\ taxi_locks[svc[r].taxi] = Free
  /\ taxi_locks' = [ taxi_locks EXCEPT ![svc[r].taxi] = SvcThread(r) ]
  /\ UNCHANGED << data, locks >>

\* the collection lock a _service thread takes next: lines 212, 214, 222
SvcNextLock(r) ==
  IF svc[r].pc = "append" THEN "completed_lock"
  ELSE IF svc[r].pc = "profit" THEN "profit_lock"
  ELSE "ts_lock"

SvcLock(r) ==
  /\ svc[r].pc \in { "append", "profit", "series" }
  /\ locks[SvcNextLock(r)] = Free
  /\ locks' = [ locks EXCEPT ![SvcNextLock(r)] = SvcThread(r) ]
  /\ UNCHANGED << data, taxi_locks >>

\* line 237: get_history takes completed_lock ...
HistLock ==
  /\ locks["completed_lock"] = Free
  /\ locks' = [ locks EXCEPT !["completed_lock"] = HistThread ]
  /\ UNCHANGED << data, taxi_locks >>

\* ... and gives it back with the list of line 238
HistReturn ==
  /\ locks["completed_lock"] = HistThread
  /\ locks' = [ locks EXCEPT !["completed_lock"] = Free ]
  /\ UNCHANGED << data, taxi_locks >>

\* ------------------------------------------------------------------ threads
\* the adjudicators at work and the _service threads
Workers ==
  \/ \E a \in AdjIds : AdjTake(a)
  \/ \E a \in AdjIds : AdjAcquire(a)
  \/ \E a \in AdjIds : AdjScan(a)
  \/ \E a \in AdjIds : AdjSortKey(a)
  \/ \E a \in AdjIds : AdjClaim(a)
  \/ \E a \in AdjIds : AdjAssign(a)
  \/ \E a \in AdjIds : AdjRequeue(a)
  \/ \E r \in ReqIds : SvcStart(r)
  \/ \E r \in ReqIds : SvcPickup(r)
  \/ \E r \in ReqIds : SvcTrip(r)
  \/ \E r \in ReqIds : SvcFinalize(r)
  \/ \E r \in ReqIds : SvcSetFare(r)
  \/ \E r \in ReqIds : SvcSetCompleted(r)
  \/ \E r \in ReqIds : SvcAppend(r)
  \/ \E r \in ReqIds : SvcProfit(r)
  \/ \E r \in ReqIds : SvcRating(r)
  \/ \E r \in ReqIds : SvcTimeSeries(r)

Reader ==
  \/ SnapAcquire
  \/ SnapReadTaxi
  \/ SnapReadRequest
  \/ SnapSeries
  \/ SnapBuild
  \/ SnapReturn

\* the engine with its submitters
Next ==
  \/ \E origin \in Origins, dest \in Destinations :
        create_client_request(origin, dest) /\ UNCHANGED web
  \/ start
  \/ stop
  \/ \E a \in AdjIds : AdjExit(a)
  \/ Workers

Spec == Init /\ [][Next]_vars

\* the engine as in Spec, with earnings and profit kept as floats: 0.0 at
\* the start (lines 56 and 94)
InitFloat ==
  /\ taxis = [ t \in TaxiIds |->
               [ location |-> InitialLocation(t), rating |-> InitialRating,
                 available |-> TRUE, earnings |-> << >> ] ]
  /\ requests = << >>
  /\ requests_index = << >>
  /\ request_counter = 0
  /\ binary_semaphore = 1
  /\ completed_services = << >>
  /\ company_monthly_profit = << >>
  /\ time_series = << >>
  /\ running = FALSE
  /\ adj = [ a \in AdjIds |-> AdjIdle ]
  /\ adjudicator_thread = 1
  /\ starter = [ c \in StartCallers |-> "idle" ]
  /\ web = WebIdle
  /\ locks = [ l \in TopLocks |-> Free ]
  /\ taxi_locks = [ t \in TaxiIds |-> Free ]
  /\ attempted = {}
  /\ svc = [ r \in ReqIds |-> SvcNone ]
  /\ snap = SnapIdle
  /\ held = [ t \in TaxiIds |-> {} ]

NextFloat ==
  \/ \E origin \in Origins, dest \in Destinations :
        create_client_request(origin, dest) /\ UNCHANGED web
  \/ start
  \/ stop
  \/ \E a \in AdjIds : AdjExit(a)
  \/ \E a \in AdjIds : AdjTake(a)
  \/ \E a \in AdjIds : AdjAcquire(a)
  \/ \E a \in AdjIds : AdjScan(a)
  \/ \E a \in AdjIds : AdjSortKey(a)
  \/ \E a \in AdjIds : AdjClaim(a)
  \/ \E a \in AdjIds : AdjAssign(a)
  \/ \E a \in AdjIds : AdjRequeue(a)
  \/ \E r \in ReqIds : SvcStart(r)
  \/ \E r \in ReqIds : SvcPickup(r)
  \/ \E r \in ReqIds : SvcTrip(r)
  \/ \E r \in ReqIds : SvcFinalizeFloat(r)
  \/ \E r \in ReqIds : SvcSetFare(r)
  \/ \E r \in ReqIds : SvcSetCompleted(r)
  \/ \E r \in ReqIds : SvcAppend(r)
  \/ \E r \in ReqIds : SvcProfitFloat(r)
  \/ \E r \in ReqIds : SvcRating(r)
  \/ \E r \in ReqIds : SvcTimeSeries(r)

SpecFloat == InitFloat /\ [][NextFloat]_vars

\* the started engine under a polling reader (the /status route), with
\* fewer requests, from the first taxi's position or from out of reach
NextSnapshot ==
  \/ \E origin \in SnapshotOrigins, dest \in Destinations :
        request_counter < SnapshotRequests
          /\ create_client_request(origin, dest) /\ UNCHANGED web
  \/ start
  \/ Workers
  \/ Reader

SpecSnapshot == Init /\ [][NextSnapshot]_vars

\* the engine behind the /request handler, which checks central.running
\* before it calls create_client_request
NextRequest ==
  \/ create_request_check
  \/ \E origin \in Origins, dest \in Destinations : create_request(origin, dest)
  \/ start
  \/ stop
  \/ \E a \in AdjIds : AdjExit(a)
  \/ Workers

SpecRequest == Init /\ [][NextRequest]_vars

\* start() called from several threads at once (two POST /start that both
\* reach line 440 with the same engine in `central`), and stop()
NextStart ==
  \/ \E origin \in SnapshotOrigins, dest \in Destinations :
        create_client_request(origin, dest) /\ UNCHANGED web
  \/ \E c \in StartCallers : StartFlag(c)
  \/ \E c \in StartCallers : StartCheck(c)
  \/ \E c \in StartCallers : StartCreate(c)
  \/ \E c \in StartCallers : StartLaunch(c)
  \/ stop
  \/ \E a \in AdjIds : AdjExit(a)
  \/ Workers

SpecStart == Init /\ [][NextStart]_vars

\* concurrent start() callers and stop() as in NextStart, with a
\* Thread.start() that can fail inside _assign_taxi
NextToken ==
  \/ NextStart
  \/ \E a \in AdjIds : AdjAssignRaises(a)

SpecToken == Init /\ [][NextToken]_vars

\* the started engine under a polling reader and get_history, every lock
\* taken in a step of its own
NextLocks ==
  \/ \E origin \in SnapshotOrigins, dest \in Destinations :
        request_counter < SnapshotRequests
          /\ create_client_request(origin, dest) /\ UNCHANGED web
  \/ request_counter < SnapshotRequests /\ SubLock
  \/ start
  \/ Workers
  \/ Reader
  \/ SnapLock
  \/ SnapLockSeries
  \/ \E a \in AdjIds : AdjLockTaxis(a)
  \/ \E a \in AdjIds : AdjLockTaxi(a)
  \/ \E r \in ReqIds : SvcLockTaxi(r)
  \/ \E r \in ReqIds : SvcLock(r)
  \/ HistLock
  \/ HistReturn

SpecLocks == Init /\ [][NextLocks]_vars

\* one thread's steps: an adjudicator, a _service thread
AdjudicatorStep(a) ==
  \/ AdjTake(a) \/ AdjExit(a) \/ AdjAcquire(a) \/ AdjScan(a) \/ AdjSortKey(a)
  \/ AdjClaim(a) \/ AdjAssign(a) \/ AdjRequeue(a)

ServiceStep(r) ==
  \/ SvcStart(r) \/ SvcPickup(r) \/ SvcTrip(r) \/ SvcFinalize(r)
  \/ SvcSetFare(r) \/ SvcSetCompleted(r) \/ SvcAppend(r) \/ SvcProfit(r)
  \/ SvcRating(r) \/ SvcTimeSeries(r)

\* every thread that is started gets to run: its sleeps and timed waits end
\* (wait(timeout=1), acquire(timeout=3), sleep(0.3), sleep(0.08))
Scheduling ==
  /\ \A a \in AdjIds : WF_vars(AdjudicatorStep(a))
  /\ \A r \in ReqIds : WF_vars(ServiceStep(r))

\* the started engine, never stopped, every thread scheduled
NextRun ==
  \/ \E origin \in SnapshotOrigins, dest \in Destinations :
        request_counter < SnapshotRequests
          /\ create_client_request(origin, dest) /\ UNCHANGED web
  \/ start
  \/ Workers

SpecRun == Init /\ [][NextRun]_vars /\ Scheduling

\* the engine started and stopped at will, every thread scheduled
NextStop ==
  \/ \E origin \in SnapshotOrigins, dest \in Destinations :
        request_counter < SnapshotRequests
          /\ create_client_request(origin, dest) /\ UNCHANGED web
  \/ start
  \/ stop
  \/ \E a \in AdjIds : AdjExit(a)
  \/ Workers

SpecStop == Init /\ [][NextStop]_vars /\ Scheduling

\* ================================================================== claims
Submitted == 1..request_counter

\* a trip in progress: the request has its taxi and is not completed, or its
\* _service thread has not finished
InProgress(r) ==
  \/ requests_index[r].assigned_taxi # NoTaxi /\ ~requests_index[r].completed
  \/ svc[r].pc \notin { "none", "done" }

\* C1: under any interleaving of the adjudicator, the _service threads and
\* the submitters, no two trips that are in progress at the same time
\* reference the same taxi.
C1_NoSharedTaxi ==
  \A r1 \in Submitted, r2 \in Submitted :
    (r1 # r2 /\ InProgress(r1) /\ InProgress(r2))
      => requests_index[r1].assigned_taxi # requests_index[r2].assigned_taxi

\* C2: in every state a snapshot can observe, every taxi with
\* available = false is referenced by exactly one in-progress request
\* (assigned_taxi is that taxi, completed = false).  The states get_snapshot
\* observes are those it holds its locks in.
C2_UnavailableHasOneTrip ==
  SnapshotHoldsLocks =>
    \A t \in TaxiIds :
      ~taxis[t].available =>
        Cardinality({ r \in Submitted :
                        /\ requests_index[r].assigned_taxi = t
                        /\ ~requests_index[r].completed }) = 1

\* the company's share of the first n completed trips
RECURSIVE FeesOfCompleted(_)
FeesOfCompleted(n) ==
  IF n = 0 THEN 0
  ELSE FeesOfCompleted(n - 1)
         + requests_index[completed_services[n]].fare * SERVICE_FEE_PCT

\* C4: in every snapshot the reported profit is the sum of
\* fare * SERVICE_FEE_RATE over exactly the trips its completed count counts.
C4_ProfitMatchesCompleted ==
  snap.pc = "built" => snap.profit = FeesOfCompleted(snap.completed)

\* C5: a snapshot never shows a partially updated taxi: the location,
\* rating, availability and earnings it reports for a taxi are values the
\* taxi had together at one instant.
C5_TaxiEntriesConsistent ==
  snap.pc = "built" => \A t \in TaxiIds : snap.taxis[t] \in held[t]

InQueue(r) == \E i \in 1..Len(requests) : requests[i] = r

HeldByAdjudicator(r) == \E a \in AdjIds : adj[a].req = r

InCompletedServices(r) == \E i \in 1..Len(completed_services) : completed_services[i] = r

IsPending(r) ==
  /\ requests_index[r].assigned_taxi = NoTaxi
  /\ InQueue(r) \/ HeldByAdjudicator(r)
  /\ ~InCompletedServices(r)

IsInProgress(r) ==
  /\ requests_index[r].assigned_taxi # NoTaxi
  /\ ~requests_index[r].completed
  /\ ~InQueue(r)
  /\ ~InCompletedServices(r)

IsCompleted(r) ==
  /\ requests_index[r].completed
  /\ InCompletedServices(r)

\* C6: at every moment each submitted request is in exactly one of pending
\* (no taxi, queued or held by the adjudicator, not in completed_services),
\* in progress (taxi set, not completed, not queued, not in
\* completed_services) and completed (completed and in completed_services).
C6_ExactlyOneState ==
  \A r \in Submitted :
    Cardinality({ k \in { "pending", "in-progress", "completed" } :
                    \/ k = "pending" /\ IsPending(r)
                    \/ k = "in-progress" /\ IsInProgress(r)
                    \/ k = "completed" /\ IsCompleted(r) }) = 1

\* C7: every completed request has its taxi and a positive fare, and so has
\* every entry get_history returns.
C7_CompletedHasTaxiAndFare ==
  /\ \A r \in Submitted :
       requests_index[r].completed =>
         requests_index[r].assigned_taxi # NoTaxi /\ requests_index[r].fare > 0
  /\ \A i \in 1..Len(get_history) :
       get_history[i].taxi # NoTaxi /\ get_history[i].fare > 0

C7_Witness ==
  \E r \in Submitted :
    /\ requests_index[r].completed
    /\ \E i \in 1..Len(get_history) : get_history[i].rid = r

\* C8: when the matching step marks a taxi unavailable for a request, the
\* taxi is within the match radius of the request's origin.
C8_ClaimedWithinRadius ==
  \A a \in AdjIds :
    adj[a].pc = "assign" =>
      Dist(taxis[adj[a].chosen].location, requests_index[adj[a].req].origin)
        <= MATCH_RADIUS * Unit

C8_Witness ==
  \E a \in AdjIds :
    /\ adj[a].pc = "assign"
    /\ ~taxis[adj[a].chosen].available
    /\ taxis[adj[a].chosen].location # InitialLocation(adj[a].chosen)
    /\ Dist(taxis[adj[a].chosen].location, requests_index[adj[a].req].origin)
         = MATCH_RADIUS * Unit

\* the candidate of the chosen taxi
ChosenCandidate(a) ==
  CHOOSE c \in { adj[a].candidates[i] : i \in 1..Len(adj[a].candidates) } :
    c.taxi = adj[a].chosen

\* C9: when matching selects a taxi, no other candidate is strictly closer,
\* and no candidate at the same distance has a strictly higher rating.
C9_ChosenIsBest ==
  [][ \A a \in AdjIds :
        (adj[a].pc = "sort" /\ adj'[a].pc = "claim") =>
          \A i \in 1..Len(adj'[a].candidates) :
            /\ adj'[a].candidates[i].d >= ChosenCandidate(a)'.d
            /\ adj'[a].candidates[i].d = ChosenCandidate(a)'.d =>
                 taxis'[adj'[a].candidates[i].taxi].rating
                   <= taxis'[adj'[a].chosen].rating
    ]_vars

\* the requests that have a taxi
Assigned == { r \in Submitted : requests_index[r].assigned_taxi # NoTaxi }

\* the taxis within the match radius of r's origin as they were registered
TaxisInRange(r) ==
  { t \in TaxiIds :
      Dist(InitialLocation(t), requests_index[r].origin) <= MATCH_RADIUS * Unit }

\* M requests are submitted, all with the same K < M taxis in range
MoreRequestsThanTaxis ==
  /\ request_counter > 0
  /\ \A r \in Submitted : TaxisInRange(r) = TaxisInRange(1)
  /\ Cardinality(TaxisInRange(1)) < request_counter

\* the requests waiting: in the queue, or in the adjudicator's hands
WaitingCount == Len(requests) + Cardinality({ a \in AdjIds : adj[a].req # NoReq })

\* no more than K requests have a taxi, no taxi serves two of them, and
\* after a failed match exactly K have one and the M-K others wait
KAssignedRestPending ==
  /\ Cardinality(Assigned) <= Cardinality(TaxisInRange(1))
  /\ \A r1 \in Assigned, r2 \in Assigned :
       r1 # r2 => requests_index[r1].assigned_taxi # requests_index[r2].assigned_taxi
  /\ (\E a \in AdjIds : adj[a].pc = "backoff") =>
       /\ Cardinality(Assigned) = Cardinality(TaxisInRange(1))
       /\ WaitingCount = request_counter - Cardinality(TaxisInRange(1))

NoTaxiReleased ==
  \A r \in Submitted : svc[r].pc \in { "none", "start", "pickup", "trip", "finalize" }

NoAvailableTaxiNear(r) ==
  \A t \in TaxiIds :
    ~taxis[t].available
      \/ Dist(taxis[t].location, requests_index[r].origin) > MATCH_RADIUS * Unit

\* the matching step has claimed a taxi for r
Matched(r) ==
  \/ requests_index[r].assigned_taxi # NoTaxi
  \/ \E a \in AdjIds : adj[a].req = r /\ adj[a].pc = "assign"

\* a request without a taxi passes the filter of the snapshot's pending list
\* (not completed, assigned_taxi None) whenever its fields are read, is not
\* among the completed trips, and is queued or in the adjudicator's hands
UnassignedStaysPending ==
  \A r \in Submitted :
    requests_index[r].assigned_taxi = NoTaxi =>
      /\ ~requests_index[r].completed
      /\ ~InCompletedServices(r)
      /\ svc[r].pc = "none"
      /\ Cardinality({ i \in 1..Len(requests) : requests[i] = r })
           + (IF HeldByAdjudicator(r) THEN 1 ELSE 0) = 1

\* no step matches a request while no available taxi is within the radius
NeverMatchedOutOfReach ==
  \A r \in Submitted :
    (~Matched(r) /\ NoAvailableTaxiNear(r)) => ~Matched(r)'

\* C10: a submitted request with no available taxi within the match radius
\* of its origin is not assigned and is in the pending list of every
\* snapshot for as long as no taxi becomes available within the radius; the
\* adjudicator keeps retrying it, and neither drops nor completes it.
C10_OutOfReachStaysPending ==
  [](UnassignedStaysPending) /\ [][NeverMatchedOutOfReach]_vars

\* a retry has just failed for want of a free taxi: the only taxi within the
\* radius is serving another request
C10_Witness ==
  \E r \in Submitted :
    /\ \E a \in AdjIds : adj[a].pc = "backoff" /\ adj[a].req = r
    /\ NoAvailableTaxiNear(r)
    /\ requests_index[r].assigned_taxi = NoTaxi
    /\ \E t \in TaxiIds :
         /\ ~taxis[t].available
         /\ Dist(taxis[t].location, requests_index[r].origin) <= MATCH_RADIUS * Unit

\* the engine runs, request 1 is submitted within the match radius of taxi 1,
\* which is available and has earned nothing yet; no other taxi is in range
OneRequestInReach ==
  /\ running
  /\ request_counter = 1
  /\ requests_index[1].assigned_taxi = NoTaxi
  /\ taxis[1].available /\ taxis[1].earnings = 0
  /\ { t \in TaxiIds :
         Dist(taxis[t].location, requests_index[1].origin) <= MATCH_RADIUS * Unit }
       = { 1 }

TaxiBusy == ~taxis[1].available

TaxiServed == taxis[1].available /\ taxis[1].earnings > 0

HistoryHasTheTrip ==
  /\ TaxiServed
  /\ Len(get_history) = 1
  /\ get_history[1].rid = 1

\* request 1 is the one request submitted
OnlyRequest == request_counter = 1

\* C11: with the engine running, one available taxi and one request
\* submitted within its match radius, under fair scheduling the taxi becomes
\* unavailable, later available again with earnings > 0, and get_history
\* then has exactly one entry, with the request's id, for as long as no
\* second request is submitted.
C11_TripRunsToHistory ==
  /\ OneRequestInReach ~> (TaxiBusy \/ ~OnlyRequest)
  /\ (OnlyRequest /\ TaxiBusy) ~> (TaxiServed \/ ~OnlyRequest)
  /\ (OnlyRequest /\ TaxiServed) ~> (HistoryHasTheTrip \/ ~OnlyRequest)
  /\ [][(HistoryHasTheTrip /\ request_counter' = 1) => HistoryHasTheTrip']_vars

C11_Witness == HistoryHasTheTrip /\ svc[1].pc = "done"

\* C12: a submission through the /request handler while the engine is stopped
\* (never started, or after stop(), also when stop() races with the
\* submission) fails with the not-running condition and changes no state: no
\* step taken while the engine is stopped allocates a request id or indexes
\* a request, and the handler then reports the error.
C12_StoppedEngineTakesNoRequest ==
  [][ ~running =>
        /\ request_counter' = request_counter
        /\ requests_index' = requests_index
        /\ (web.pc = "idle" /\ web' # web) => web'.error
    ]_vars

\* the places an unassigned request r is in: its entries in the queue and
\* the adjudicators that hold it
PlacesOf(r) ==
  Cardinality({ i \in 1..Len(requests) : requests[i] = r })
    + Cardinality({ a \in AdjIds : adj[a].req = r })

\* an adjudicator lets go of a request that has no taxi only by appending it
\* to the queue
ReleasedToTail ==
  \A a \in AdjIds :
    ( /\ adj[a].req # NoReq
      /\ adj'[a].req # adj[a].req
      /\ requests_index'[adj[a].req].assigned_taxi = NoTaxi )
    => requests' = Append(requests, adj[a].req)

\* C13: no request is dropped by an adjudicator: at every moment each
\* submitted request without a taxi is in the queue or held by an adjudicator
\* for its current attempt, and after a token timeout, a failed match or a
\* lost re-check it is back at the tail of the queue, also across stop().
C13_NoRequestDropped ==
  /\ [](\A r \in Submitted :
          requests_index[r].assigned_taxi = NoTaxi => PlacesOf(r) = 1)
  /\ [][ReleasedToTail]_vars

\* after stop() every adjudicator has left, and a request that was attempted
\* and found no taxi is back in the queue
C13_Witness ==
  /\ ~running
  /\ \A a \in AdjIds : adj[a].pc = "dead"
  /\ \E r \in Submitted :
       /\ r \in attempted
       /\ requests_index[r].assigned_taxi = NoTaxi
       /\ InQueue(r)

\* an adjudicator that takes a request takes the head of the queue
HeadIsTaken ==
  \A a \in AdjIds :
    (adj[a].req = NoReq /\ adj'[a].req # NoReq) =>
      /\ requests # << >>
      /\ adj'[a].req = Head(requests)
      /\ requests' = Tail(requests)

\* a request that is attempted for the first time arrived after every
\* request attempted before it and before every request not yet attempted
\* (ids are given in arrival order)
FirstAttemptsInArrivalOrder ==
  \A r \in Submitted :
    (r \notin attempted /\ r \in attempted') =>
      /\ \A q \in Submitted : q < r => q \in attempted
      /\ \A q \in attempted : q < r

\* a request whose attempt failed goes behind everything that is queued
FailedGoesToTail ==
  \A a \in AdjIds :
    (adj[a].req # NoReq /\ adj'[a].req = NoReq
       /\ requests_index'[adj[a].req].assigned_taxi = NoTaxi) =>
      /\ Len(requests') = Len(requests) + 1
      /\ requests'[Len(requests')] = adj[a].req
      /\ SubSeq(requests', 1, Len(requests)) = requests

\* C14: the adjudicator always attempts the head of the queue, so requests
\* never attempted before are attempted in arrival order, and a request whose
\* attempt fails is appended at the tail again (so that a later request can
\* get its taxi before an earlier one that failed).
C14_HeadFirstFailedLast ==
  [][HeadIsTaken /\ FirstAttemptsInArrivalOrder /\ FailedGoesToTail]_vars

\* request 2 has its taxi while request 1, which arrived first and was
\* attempted first, is still without one
C14_Witness ==
  /\ request_counter = 2
  /\ 1 \in attempted
  /\ requests_index[1].assigned_taxi = NoTaxi
  /\ requests_index[2].assigned_taxi # NoTaxi

\* the adjudicator threads that are running
LiveAdjudicators == { a \in AdjIds : IsAlive(a) }

\* a step of a start() call changes nothing but the running flag and the
\* adjudicator thread
StartLeavesData ==
  starter' # starter =>
    UNCHANGED << taxis, requests, requests_index, request_counter,
                 completed_services, company_monthly_profit, time_series >>

\* C15: start() is idempotent: after any sequence or interleaving of start()
\* calls on one engine (also one made while a stopped adjudicator finishes
\* its last iteration) at most one adjudicator thread runs for the engine,
\* and start() leaves taxis, requests and aggregates as they are.
C15_AtMostOneAdjudicator ==
  /\ [](Cardinality(LiveAdjudicators) <= 1)
  /\ [][StartLeavesData]_vars

\* no adjudicator thread runs
NoAdjudicator == \A a \in AdjIds : ~IsAlive(a)

\* a step in which a taxi is claimed or a request gets its taxi
MatchingStep ==
  \/ \E t \in TaxiIds : taxis[t].available /\ ~taxis'[t].available
  \/ \E r \in Submitted :
       requests_index'[r].assigned_taxi # requests_index[r].assigned_taxi

\* C16: after stop(), unless start() is called again, the adjudicator leaves
\* its loop from wherever it is (waiting on the empty queue, waiting for the
\* token, matching, in back-off), and once it has left nothing is matched
\* until a start().
C16_StopEndsAdjudicator ==
  /\ ~running ~> (running \/ NoAdjudicator)
  /\ [][(NoAdjudicator /\ MatchingStep) => FALSE]_vars

\* stop() has found the adjudicator in its back-off
C16_Witness ==
  /\ ~running
  /\ \E a \in AdjIds : adj[a].pc = "backoff"

\* the trip of r is finalized: the request is completed with its fare and is
\* among the completed trips, and the company has its share
TripFinalized(r) ==
  /\ svc[r].pc = "done"
  /\ requests_index[r].completed
  /\ requests_index[r].fare > 0
  /\ InCompletedServices(r)
  /\ company_monthly_profit = FeesOfCompleted(Len(completed_services))

\* the step that ends the trip hands the taxi back
FinalizeReleasesTaxi ==
  \A r \in Submitted :
    (svc[r].pc = "finalize" /\ svc'[r].pc # "finalize") =>
      taxis'[svc[r].taxi].available

\* C17: stop() never interrupts a trip: every _service thread that was
\* started makes its taxi available again, completes the request with its
\* fare, appends it to the completed trips and credits the profit, also when
\* stop() is called during the trip.
C17_TripsRunToTheEnd ==
  /\ \A r \in ReqIds : (svc[r].pc = "start") ~> TripFinalized(r)
  /\ [][FinalizeReleasesTaxi]_vars

\* the engine is stopped, its adjudicator has left, and the trip goes on
C17_Witness ==
  /\ ~running
  /\ NoAdjudicator
  /\ \E r \in Submitted : svc[r].pc = "trip" /\ svc[r].i > 0

\* the threads that take locks
Threads ==
  { SnapThread, HistThread, SubThread }
    \cup { AdjThread(a) : a \in AdjIds } \cup { SvcThread(r) : r \in ReqIds }

HeldTop(th) == { l \in TopLocks : locks[l] = th }

HeldTaxi(th) == { t \in TaxiIds : taxi_locks[t] = th }

\* the owner of the lock thread th needs for its next step (Free when it
\* needs none): get_snapshot in the middle of its `with` or before ts_lock,
\* an adjudicator before taxis_lock or a Taxi.lock, a _service thread before
\* the lock of its next block
NeededLockOwner(th) ==
  IF th = SnapThread
  THEN IF snap.pc = "idle" /\ SnapTaken # {}
            /\ Cardinality(SnapTaken) < Len(SnapLockOrder)
       THEN locks[SnapLockOrder[Cardinality(SnapTaken) + 1]]
       ELSE IF snap.pc = "series" THEN locks["ts_lock"] ELSE Free
  ELSE IF th.kind = "_adjudicator"
  THEN IF adj[th.id].pc = "scan"
       THEN IF locks["taxis_lock"] # th THEN locks["taxis_lock"]
            ELSE taxi_locks[adj[th.id].idx]
       ELSE IF adj[th.id].pc = "claim" THEN taxi_locks[adj[th.id].chosen]
       ELSE Free
  ELSE IF th.kind = "_service"
  THEN IF svc[th.id].pc \in { "start", "pickup", "trip", "finalize", "rating" }
       THEN taxi_locks[svc[th.id].taxi]
       ELSE IF svc[th.id].pc \in { "append", "profit", "series" }
       THEN locks[SvcNextLock(th.id)]
       ELSE Free
  ELSE Free

\* the thread th waits for, Free when it waits for none
WaitsFor(th) == IF NeededLockOwner(th) = th THEN Free ELSE NeededLockOwner(th)

\* the thread at the end of n waits, starting from th
RECURSIVE WaitChain(_, _)
WaitChain(th, n) == IF n = 0 THEN th ELSE WaitsFor(WaitChain(th, n - 1))

\* no thread waits, through other waiting threads, for itself
NoWaitCycle ==
  \A th \in Threads :
    \A n \in 1..Cardinality(Threads) : WaitChain(th, n) # th

\* get_snapshot holds a front part of taxis_lock, completed_lock,
\* profit_lock, requests_lock, and ts_lock only inside all four
SnapshotOrder ==
  /\ HeldTop(SnapThread) \ { "ts_lock" } \in
       { {}, { "taxis_lock" }, { "taxis_lock", "completed_lock" },
         { "taxis_lock", "completed_lock", "profit_lock" },
         { "taxis_lock", "completed_lock", "profit_lock", "requests_lock" } }
  /\ locks["ts_lock"] = SnapThread =>
       Cardinality(HeldTop(SnapThread)) = 5
  /\ HeldTaxi(SnapThread) = {}

\* every other thread holds at most one collection lock and one Taxi.lock
WritersHoldOne ==
  \A th \in Threads \ { SnapThread } :
    /\ Cardinality(HeldTop(th)) <= 1
    /\ Cardinality(HeldTaxi(th)) <= 1

IdsAreOneToN ==
  /\ Len(requests_index) = request_counter
  /\ \A i \in 1..Len(requests) : requests[i] \in 1..request_counter
  /\ \A i \in 1..Len(requests), j \in 1..Len(requests) :
       requests[i] = requests[j] => i = j

\* a call gives out the id after the last one given, queues it behind all
\* that is queued, and returns it
NextIdIsNext ==
  request_counter' # request_counter =>
    /\ request_counter' = request_counter + 1
    /\ requests' = Append(requests, request_counter')
    /\ Len(requests_index') = request_counter'
    /\ web'.rid = request_counter'

\* C19: under any interleaving of concurrent submissions on one engine the
\* ids returned are pairwise distinct and are 1..n without a gap, and the
\* requests enter the queue in increasing id order.
C19_SequentialIds == [](IdsAreOneToN) /\ [][NextIdIsNext]_vars

\* two submissions have returned, the later one with id 2, and the requests
\* were queued in that order
C19_Witness ==
  /\ request_counter = 2
  /\ web.rid = 2
  /\ requests = << 1, 2 >>

\* the adjudicator is inside _assign_taxi (lines 150-153)
Matching(a) == adj[a].pc \in { "scan", "sort", "claim", "assign" }

\* the count is one less the number of adjudicators inside _assign_taxi
TokenCountsHolders ==
  /\ binary_semaphore \in { 0, 1 }
  /\ binary_semaphore = 1 - Cardinality({ a \in AdjIds : Matching(a) })

\* leaving _assign_taxi, by a match, by no match or by an exception, puts
\* the token back
DecisionReleases ==
  \A a \in AdjIds :
    (Matching(a) /\ adj'[a].pc \notin { "scan", "sort", "claim", "assign" })
      => binary_semaphore = 0 /\ binary_semaphore' = 1

\* an adjudicator that gives up waiting for the token leaves the count alone
TimeoutKeepsCount ==
  \A a \in AdjIds :
    (adj[a].pc = "acquire" /\ adj'[a].pc = "wait")
      => binary_semaphore' = binary_semaphore

\* C20: the assignment token is a binary permit: its count is always 0 or
\* 1, it is held for the whole of each matching decision, it is released
\* after every decision (matched, not matched, or matching raised), and the
\* token-timeout path does not release it.
C20_TokenIsBinaryPermit ==
  [](TokenCountsHolders) /\ [][DecisionReleases /\ TimeoutKeepsCount]_vars

\* one adjudicator holds the token inside _assign_taxi, a second one has
\* taken the other request and finds the token gone
C20_Witness ==
  \E a \in AdjIds, b \in AdjIds :
    /\ a # b
    /\ Matching(a)
    /\ adj[b].pc = "acquire"
    /\ adj[b].req # NoReq
    /\ binary_semaphore = 0

\* a _service thread is between the credit to its taxi (line 208) and the
\* credit to the company (line 215)
InFinalization(r) == svc[r].pc \in { "fare", "completed", "append", "profit" }

\* the completed trips taxi t served
CompletedBy(t) ==
  { r \in Submitted : requests_index[r].completed
                        /\ requests_index[r].assigned_taxi = t }

\* the sum of share(r) over the requests in S
RECURSIVE SumOver(_, _)
SumOver(S, share) ==
  IF S = {} THEN 0
  ELSE LET r == CHOOSE x \in S : TRUE
       IN  share[r] + SumOver(S \ { r }, share)

TaxiShare == [ r \in Submitted |-> requests_index[r].fare * (100 - SERVICE_FEE_PCT) ]

WholeFare == [ r \in Submitted |-> requests_index[r].fare * 100 ]

TotalEarnings == SumOver(TaxiIds, [ t \in TaxiIds |-> taxis[t].earnings ])

\* with the amounts as exact decimals (Spec): with no trip in finalization
\* every taxi has the taxi's share of its completed trips, and earnings and
\* profit together are the fares of the completed trips
SplitInExactArithmetic ==
  (\A r \in ReqIds : ~InFinalization(r)) =>
    /\ \A t \in TaxiIds : taxis[t].earnings = SumOver(CompletedBy(t), TaxiShare)
    /\ TotalEarnings + company_monthly_profit
         = SumOver({ r \in Submitted : requests_index[r].completed }, WholeFare)

\* the floats of a sequence added up from left to right, and their exact sum
RECURSIVE FloatSum(_)
FloatSum(s) ==
  IF s = << >> THEN << >>
  ELSE DAdd(FloatSum(SubSeq(s, 1, Len(s) - 1)), s[Len(s)])

RECURSIVE ExactSum(_)
ExactSum(s) ==
  IF s = << >> THEN << >>
  ELSE NatAdd(ExactSum(SubSeq(s, 1, Len(s) - 1)), s[Len(s)])

\* the fares of the completed trips, in the order of completion
CompletedFares ==
  [ i \in 1..Len(completed_services) |-> requests_index[completed_services[i]].fare ]

\* fare * (1 - SERVICE_FEE_RATE) of the completed trips taxi t served
SharesOf(t) ==
  LET trips == SelectSeq(completed_services,
                         LAMBDA r : requests_index[r].assigned_taxi = t)
  IN  [ i \in 1..Len(trips) |->
        DMul(requests_index[trips[i]].fare, DSub(FloatOne, FloatRate)) ]

AllEarnings == [ t \in 1..NumTaxis |-> taxis[t].earnings ]

HasTaxi(r) == requests_index[r].assigned_taxi # NoTaxi

\* a matched request is out of the adjudicators' reach and has its one
\* _service thread; no id is queued twice or twice in the history
MatchedIsOutOfTheQueue ==
  /\ \A r \in Submitted :
       HasTaxi(r) => ~InQueue(r) /\ ~HeldByAdjudicator(r) /\ svc[r].pc # "none"
  /\ \A r \in Submitted : ~HasTaxi(r) => svc[r].pc = "none"
  /\ \A i \in 1..Len(requests), j \in 1..Len(requests) :
       requests[i] = requests[j] => i = j
  /\ \A i \in 1..Len(completed_services), j \in 1..Len(completed_services) :
       completed_services[i] = completed_services[j] => i = j

\* the taxi of a matched request is never set again, and a _service thread
\* starts only in the step that matches its request
MatchedOnce ==
  \A r \in Submitted :
    /\ HasTaxi(r) => requests_index'[r].assigned_taxi = requests_index[r].assigned_taxi
    /\ (svc'[r].pc = "start" /\ svc[r] # svc'[r])
         => ~HasTaxi(r) /\ svc[r].pc = "none"
              /\ requests_index'[r].assigned_taxi # NoTaxi

\* C22: each request is matched at most once: once assigned_taxi is set the
\* request is never put back in the queue nor matched again, a request is
\* never in the queue twice, exactly one _service thread is ever started for
\* it, and its id appears at most once in get_history.
C22_MatchedAtMostOnce == [](MatchedIsOutOfTheQueue) /\ [][MatchedOnce]_vars

\* both requests were matched, the second after a failed attempt or a wait,
\* and both trips are in the history
C22_Witness ==
  /\ request_counter = 2
  /\ Len(get_history) = 2
  /\ \A r \in Submitted : HasTaxi(r) /\ svc[r].pc = "done"

OneDispatcher == Cardinality(LiveAdjudicators) <= 1

\* only an adjudicator's acquire takes the token, and only an adjudicator's
\* claim makes a taxi unavailable
OnlyDispatcherTakes ==
  /\ binary_semaphore' < binary_semaphore
       => \E a \in AdjIds : adj[a].pc = "acquire" /\ adj'[a].pc = "scan"
  /\ \A t \in TaxiIds :
       (taxis[t].available /\ ~taxis'[t].available)
         => \E a \in AdjIds : /\ adj[a].pc = "claim"
                              /\ adj[a].chosen = t
                              /\ adj'[a].pc = "assign"

\* with one adjudicator thread the token is there when it is asked for and
\* the chosen taxi is available at the re-check
TokenFreeTaxiAvailable ==
  OneDispatcher =>
    \A a \in AdjIds :
      /\ adj[a].pc = "acquire" => binary_semaphore = 1
      /\ adj[a].pc = "claim" => taxis[adj[a].chosen].available

\* with one adjudicator thread no step takes the branch of line 146 (token
\* timeout) or of line 176 (taxi taken since the scan)
BranchesNotTaken ==
  OneDispatcher =>
    \A a \in AdjIds :
      /\ ~(adj[a].pc = "acquire" /\ adj'[a].pc = "wait")
      /\ ~(adj[a].pc = "claim" /\ adj'[a].pc = "backoff")

\* C23: with one adjudicator thread per engine, the adjudicator is the only
\* party that acquires the token or marks a taxi unavailable, so the token is
\* free whenever it tries to acquire it and a taxi scanned as available is
\* still available at the re-check: the token-timeout branch and the
\* race-lost branch are never taken.
C23_RetryBranchesUnreachable ==
  [](TokenFreeTaxiAvailable) /\ [][OnlyDispatcherTakes /\ BranchesNotTaken]_vars

\* the only adjudicator re-checks a taxi that has served a trip and is
\* available again
C23_Witness ==
  /\ OneDispatcher
  /\ \E a \in AdjIds :
       /\ adj[a].pc = "claim"
       /\ taxis[adj[a].chosen].available
       /\ \E r \in Submitted : svc[r].pc = "done" /\ svc[r].taxi = adj[a].chosen

====
